---- MODULE Spec2Model ----
(***************************************************************************)
(* A model of the type_set crate: TypeSet (src/src/lib.rs) and its Entry   *)
(* API (src/src/entry.rs).                                                 *)
(*                                                                         *)
(* The backing BTreeMap<Key, Value> is a sequence of [key, value] slots    *)
(* kept sorted by key.  A Value is the erased payload (its dynamic TypeId  *)
(* and its contents) plus the type name recorded at insertion.             *)
(***************************************************************************)
EXTENDS Integers, Sequences, FiniteSets, TLC

VARIABLES set, entry, last

vars == <<set, entry, last>>

(***************************************************************************)
(* Bounds and inputs                                                       *)
(***************************************************************************)
\* the contents of a stored value range over 0..MaxVal
MaxVal == 2

Vals == 0 .. MaxVal

\* the types named by the callers (tests/tests.rs uses bool, usize, String)
Types == {"bool", "usize", "String"}

\* closures passed to and_modify / written through a &mut T
Modifiers == {"incr", "reset"}

Apply(g, v) ==
    CASE g = "incr" -> (v + 1) % (MaxVal + 1)
      [] g = "reset" -> 0
      [] OTHER -> v

\* Default::default() of every modelled type
default(T) == 0

(***************************************************************************)
(* Values handed back to the caller                                        *)
(***************************************************************************)
None == [some |-> FALSE]

Some(v) == [some |-> TRUE, val |-> v]

\* a plain T, or a reference to a T holding v
Val(v) == [val |-> v]

Unit == [unit |-> TRUE]

Bool(b) == [bool |-> b]

\* a panic raised with the given message
Panic(msg) == [panic |-> msg]

IsPanic(r) == "panic" \in DOMAIN r

NoEntry == [kind |-> "None"]

(***************************************************************************)
(* Type identity and the erased value cell                                 *)
(***************************************************************************)
type_name(T) == IF T = "String" THEN "alloc::string::String" ELSE T

\* TypeId::of::<T>(): injective, its order unrelated to the order of names
key(T) == CASE T = "bool" -> 3 [] T = "usize" -> 1 [] T = "String" -> 2

\* Value::new that records the name of the cell's own type
ValueNew_names_itself(T, value) ==
    [any |-> [type_id |-> key(T), val |-> value], name |-> "type_set::Value"]

ValueNew(T, value) ==
    [any |-> [type_id |-> key(T), val |-> value], name |-> type_name(T)]

\* Any::downcast_ref / downcast_mut / downcast: Some iff the payload is a T
any_downcast(any, T) == IF any.type_id = key(T) THEN Some(any.val) ELSE None

\* What a build does on a failed check: a debug build panics; a release
\* build has skipped the check and goes on with an arbitrary T.
BuildOutcomes == {[debug |-> TRUE]} \cup {[debug |-> FALSE, val |-> v] : v \in Vals}

\* Value::downcast_ref / downcast_mut / downcast
Value_downcast(cell, T, ub) ==
    IF ub.debug /\ type_name(T) # cell.name
    THEN Panic(<<"assertion failed: type name ", type_name(T), " is not ", cell.name>>)
    ELSE any_downcast(cell.any, T)

\* unwrap!(x)
unwrap(x, ub) ==
    IF IsPanic(x) THEN x
    ELSE IF x.some THEN Val(x.val)
    ELSE IF ub.debug THEN Panic(<<"called Option::unwrap() on a None value">>)
    ELSE Val(ub.val)

(***************************************************************************)
(* The backing BTreeMap<Key, Value>                                        *)
(***************************************************************************)
contains_key(m, k) == \E i \in 1 .. Len(m) : m[i].key = k

IndexOf(m, k) == CHOOSE i \in 1 .. Len(m) : m[i].key = k

map_get(m, k) == m[IndexOf(m, k)].value

\* an insert of a new slot that loses the slots of the larger keys
map_insert_vacant_drops_larger(m, k, cell) ==
    SelectSeq(m, LAMBDA s : s.key < k) \o <<[key |-> k, value |-> cell]>>

\* btree_map::VacantEntry::insert: a new slot at the key's sorted position
map_insert_vacant(m, k, cell) ==
    SelectSeq(m, LAMBDA s : s.key < k)
        \o <<[key |-> k, value |-> cell]>>
        \o SelectSeq(m, LAMBDA s : s.key >= k)

\* an insert into an occupied slot that keeps the stored cell
map_insert_occupied_keeps_old(m, k, cell) == m

\* btree_map::OccupiedEntry::insert: the slot's cell is replaced
map_insert_occupied(m, k, cell) ==
    [m EXCEPT ![IndexOf(m, k)].value = cell]

\* btree_map::OccupiedEntry::remove: the slot is deleted
map_remove(m, k) ==
    LET i == IndexOf(m, k)
    IN  SubSeq(m, 1, i - 1) \o SubSeq(m, i + 1, Len(m))

\* a write of v through a &mut T into the slot's payload
map_write(m, k, v) ==
    [m EXCEPT ![IndexOf(m, k)].value.any.val = v]

\* an insert that keeps the value already stored under the key
map_insert_keeps_existing(m, k, cell) ==
    IF contains_key(m, k) THEN m ELSE map_insert_vacant(m, k, cell)

\* BTreeMap::insert, as Extend::extend applies it to each pair
map_insert(m, k, cell) ==
    IF contains_key(m, k)
    THEN map_insert_occupied(m, k, cell)
    ELSE map_insert_vacant(m, k, cell)

RECURSIVE map_extend(_, _)
map_extend(m, other) ==
    IF other = <<>> THEN m
    ELSE map_extend(map_insert(m, Head(other).key, Head(other).value), Tail(other))

(***************************************************************************)
(* Entry (src/src/entry.rs).  An operation yields the map afterwards, the  *)
(* entry the caller is left with, the value handed back and the number of  *)
(* times it invoked the closure it was given.                              *)
(***************************************************************************)
Result(m, e, ret, calls) ==
    [set |-> m, entry |-> e, ret |-> ret, calls |-> calls, via |-> "none"]

\* the outcome r, reached through the named transition of the entry
Via(name, r) == [r EXCEPT !.via = name]

Vacant(T) == [kind |-> "Vacant", key |-> key(T), T |-> T]

Occupied(T) == [kind |-> "Occupied", key |-> key(T), T |-> T]

\* Entry::new that never finds the key
Entry_new_never_occupied(m, k, T) == [kind |-> "Vacant", key |-> k, T |-> T]

\* Entry::new with the two arms of its match exchanged
Entry_new_arms_exchanged(m, k, T) ==
    IF contains_key(m, k)
    THEN [kind |-> "Vacant", key |-> k, T |-> T]
    ELSE [kind |-> "Occupied", key |-> k, T |-> T]

\* Entry::new over BTreeMap::entry(key)
Entry_new(m, k, T) ==
    IF contains_key(m, k)
    THEN [kind |-> "Occupied", key |-> k, T |-> T]
    ELSE [kind |-> "Vacant", key |-> k, T |-> T]

\* VacantEntry::insert that stores a default value in place of the given one
VacantEntry_insert_stores_default(m, e, value, ub) ==
    LET m2 == map_insert_vacant(m, e.key, ValueNew(e.T, default(e.T)))
    IN  Via("VacantEntry::insert",
            Result(m2, NoEntry, unwrap(Value_downcast(map_get(m2, e.key), e.T, ub), ub), 0))

VacantEntry_insert(m, e, value, ub) ==
    LET m2 == map_insert_vacant(m, e.key, ValueNew(e.T, value))
    IN  Via("VacantEntry::insert",
            Result(m2, NoEntry, unwrap(Value_downcast(map_get(m2, e.key), e.T, ub), ub), 0))

OccupiedEntry_get(m, e, ub) ==
    Result(m, e, unwrap(Value_downcast(map_get(m, e.key), e.T, ub), ub), 0)

OccupiedEntry_get_mut(m, e, ub) ==
    Result(m, e, unwrap(Value_downcast(map_get(m, e.key), e.T, ub), ub), 0)

\* OccupiedEntry::insert handing back the value it has just stored
OccupiedEntry_insert_returns_new(m, e, value, ub) ==
    LET m2 == map_insert_occupied(m, e.key, ValueNew(e.T, value))
    IN  Via("OccupiedEntry::insert",
            Result(m2, e, unwrap(Value_downcast(map_get(m2, e.key), e.T, ub), ub), 0))

OccupiedEntry_insert(m, e, value, ub) ==
    LET m2 == map_insert_occupied(m, e.key, ValueNew(e.T, value))
    IN  Via("OccupiedEntry::insert",
            Result(m2, e, unwrap(Value_downcast(map_get(m, e.key), e.T, ub), ub), 0))

\* OccupiedEntry::remove that empties the value and keeps the slot
OccupiedEntry_remove_keeps_key(m, e, ub) ==
    Via("OccupiedEntry::remove",
        Result(map_write(m, e.key, default(e.T)), NoEntry,
               unwrap(Value_downcast(map_get(m, e.key), e.T, ub), ub), 0))

OccupiedEntry_remove(m, e, ub) ==
    Via("OccupiedEntry::remove",
        Result(map_remove(m, e.key), NoEntry,
               unwrap(Value_downcast(map_get(m, e.key), e.T, ub), ub), 0))

OccupiedEntry_into_mut(m, e, ub) ==
    Result(m, NoEntry, unwrap(Value_downcast(map_get(m, e.key), e.T, ub), ub), 0)

\* Entry::or_insert that stores the default over a stored value
Entry_or_insert_overwrites(m, e, dflt, ub) ==
    IF e.kind = "Vacant"
    THEN VacantEntry_insert(m, e, dflt, ub)
    ELSE LET m2 == map_insert_occupied(m, e.key, ValueNew(e.T, dflt))
         IN  OccupiedEntry_into_mut(m2, e, ub)

Entry_or_insert(m, e, dflt, ub) ==
    IF e.kind = "Vacant"
    THEN VacantEntry_insert(m, e, dflt, ub)
    ELSE OccupiedEntry_into_mut(m, e, ub)

\* Entry::or_insert_with that evaluates the closure before it looks at the entry
Entry_or_insert_with_eager(m, e, f, ub) ==
    [Entry_or_insert(m, e, f.result, ub) EXCEPT !.calls = 1]

\* the closure f returns f.result when it is called
Entry_or_insert_with(m, e, f, ub) ==
    IF e.kind = "Vacant"
    THEN [VacantEntry_insert(m, e, f.result, ub) EXCEPT !.calls = 1]
    ELSE OccupiedEntry_into_mut(m, e, ub)

\* Entry::or_default that stores the default whether or not a value is there
Entry_or_default_always_stores(m, e, ub) ==
    IF e.kind = "Vacant"
    THEN [VacantEntry_insert(m, e, default(e.T), ub) EXCEPT !.calls = 1]
    ELSE [OccupiedEntry_into_mut(map_insert_occupied(m, e.key, ValueNew(e.T, default(e.T))),
                                 e, ub) EXCEPT !.calls = 1]

Entry_or_default(m, e, ub) ==
    Entry_or_insert_with(m, e, [result |-> default(e.T)], ub)

\* Entry::and_modify that hands the closure a copy of the value
Entry_and_modify_on_copy(m, e, g, ub) ==
    IF e.kind = "Vacant"
    THEN Result(m, e, Unit, 0)
    ELSE LET r == OccupiedEntry_get_mut(m, e, ub)
         IN  IF IsPanic(r.ret)
             THEN Result(m, NoEntry, r.ret, 0)
             ELSE Result(m, e, Unit, 1)

\* the closure g rewrites the value behind the &mut T it is handed
Entry_and_modify(m, e, g, ub) ==
    IF e.kind = "Vacant"
    THEN Result(m, e, Unit, 0)
    ELSE LET r == OccupiedEntry_get_mut(m, e, ub)
         IN  IF IsPanic(r.ret)
             THEN Result(m, NoEntry, r.ret, 0)
             ELSE Result(map_write(m, e.key, Apply(g, r.ret.val)), e, Unit, 1)

\* an Option<T> around the outcome of an unwrap!, a panic passing through
SomeOf(r) == IF IsPanic(r) THEN r ELSE Some(r.val)

\* Entry::insert: a vacant entry is filled and nothing is handed back, an
\* occupied one is replaced and hands back the previous value
Entry_insert(m, e, value, ub) ==
    IF e.kind = "Vacant"
    THEN LET r == VacantEntry_insert(m, e, value, ub)
         IN  [r EXCEPT !.entry = NoEntry,
                       !.ret = IF IsPanic(r.ret) THEN r.ret ELSE None]
    ELSE LET r == OccupiedEntry_insert(m, e, value, ub)
         IN  [r EXCEPT !.entry = NoEntry, !.ret = SomeOf(r.ret)]

\* Entry::take: an occupied entry is removed and its value handed back
Entry_take(m, e, ub) ==
    IF e.kind = "Vacant"
    THEN Result(m, NoEntry, None, 0)
    ELSE LET r == OccupiedEntry_remove(m, e, ub)
         IN  [r EXCEPT !.entry = NoEntry, !.ret = SomeOf(r.ret)]

\* Entry::is_empty
Entry_is_empty(e) == e.kind = "Vacant"

\* Entry::unwrap_occupied
Entry_unwrap_occupied(m, e) ==
    IF e.kind = "Occupied"
    THEN Result(m, e, Unit, 0)
    ELSE Result(m, NoEntry,
                Panic(<<"expected an occupied type-set entry for ",
                        type_name(e.T), ", but was vacant">>), 0)

\* Entry::unwrap_vacant
Entry_unwrap_vacant(m, e) ==
    IF e.kind = "Vacant"
    THEN Result(m, e, Unit, 0)
    ELSE Result(m, NoEntry,
                Panic(<<"expected a vacant type-set entry for ",
                        type_name(e.T), ", but was occupied">>), 0)

(***************************************************************************)
(* TypeSet (src/src/lib.rs)                                                *)
(***************************************************************************)
TypeSet_new == <<>>

\* Ord for str on the type names: byte-wise, so the names sort in this order
NameOrder == <<"alloc::string::String", "bool", "usize">>

name_rank(n) == CHOOSE i \in 1 .. Len(NameOrder) : NameOrder[i] = n

\* one name put into its place in a sorted sequence
RECURSIVE sorted_insert(_, _)
sorted_insert(s, n) ==
    IF s = <<>> THEN <<n>>
    ELSE IF name_rank(n) <= name_rank(Head(s)) THEN <<n>> \o s
    ELSE <<Head(s)>> \o sorted_insert(Tail(s), n)

\* values.sort_unstable()
RECURSIVE sort_unstable(_)
sort_unstable(s) ==
    IF s = <<>> THEN <<>> ELSE sorted_insert(sort_unstable(Tail(s)), Head(s))

\* self.0.values().map(|v| v.name): the recorded names in key order
value_names(m) == [i \in 1 .. Len(m) |-> m[i].value.name]

\* f.debug_set().entries(values).finish(): {"a", "b"}
RECURSIVE debug_set_entries(_)
debug_set_entries(s) ==
    IF s = <<>> THEN <<>>
    ELSE IF Len(s) = 1 THEN <<"\"", Head(s), "\"">>
    ELSE <<"\"", Head(s), "\"", ", ">> \o debug_set_entries(Tail(s))

debug_set(s) == <<"{">> \o debug_set_entries(s) \o <<"}">>

\* Debug for TypeSet that lists the names in the order of the map
TypeSet_fmt_unsorted(m) ==
    <<"TypeSet", "(">> \o debug_set(value_names(m)) \o <<")">>

\* Debug for TypeSet: TypeSet({"a", "b"})
TypeSet_fmt(m) ==
    <<"TypeSet", "(">> \o debug_set(sort_unstable(value_names(m))) \o <<")">>

TypeSet_is_empty(m) == Len(m) = 0

TypeSet_len(m) == Len(m)

\* TypeSet::entry that probes the map under the key of bool
TypeSet_entry_fixed_key(m, T) == Entry_new(m, key("bool"), T)

TypeSet_entry(m, T) == Entry_new(m, key(T), T)

TypeSet_insert(m, T, value, ub) == Entry_insert(m, TypeSet_entry(m, T), value, ub)

TypeSet_with(m, T, value, ub) ==
    LET r == TypeSet_insert(m, T, value, ub)
    IN  [r EXCEPT !.ret = IF IsPanic(r.ret) THEN r.ret ELSE Unit]

\* TypeSet::contains that answers whether the set holds anything at all
TypeSet_contains_any(m, T) == m # <<>>

TypeSet_contains(m, T) == contains_key(m, key(T))

TypeSet_get(m, T, ub) ==
    IF contains_key(m, key(T))
    THEN SomeOf(unwrap(Value_downcast(map_get(m, key(T)), T, ub), ub))
    ELSE None

\* TypeSet::get_mut that unwraps the lookup itself
TypeSet_get_mut_unwraps_lookup(m, T, ub) ==
    IF contains_key(m, key(T))
    THEN SomeOf(unwrap(Value_downcast(map_get(m, key(T)), T, ub), ub))
    ELSE SomeOf(unwrap(None, ub))

TypeSet_get_mut(m, T, ub) ==
    IF contains_key(m, key(T))
    THEN SomeOf(unwrap(Value_downcast(map_get(m, key(T)), T, ub), ub))
    ELSE None

TypeSet_take(m, T, ub) == Entry_take(m, TypeSet_entry(m, T), ub)

\* TypeSet::get_or_insert that goes through insert
TypeSet_get_or_insert_by_insert(m, T, dflt, ub) ==
    LET r == Entry_insert(m, TypeSet_entry(m, T), dflt, ub)
    IN  Result(r.set, NoEntry, IF IsPanic(r.ret) THEN r.ret ELSE Val(dflt), 0)

TypeSet_get_or_insert(m, T, dflt, ub) ==
    Entry_or_insert(m, TypeSet_entry(m, T), dflt, ub)

TypeSet_get_or_insert_with(m, T, f, ub) ==
    Entry_or_insert_with(m, TypeSet_entry(m, T), f, ub)

TypeSet_get_or_insert_default(m, T, ub) ==
    Entry_or_default(m, TypeSet_entry(m, T), ub)

TypeSet_merge(m, other) == map_extend(m, other)

\* the sets a caller can build with new() and with(): every choice of
\* types and one value for each
RECURSIVE Built(_, _)
Built(S, f) ==
    IF S = {} THEN TypeSet_new
    ELSE LET T == CHOOSE t \in S : TRUE
         IN  TypeSet_with(Built(S \ {T}, f), T, f[T], [debug |-> TRUE]).set

TypeSets == UNION {{Built(S, f) : f \in [S -> Vals]} : S \in SUBSET Types}

(***************************************************************************)
(* The state machine.  set is the TypeSet, entry the Entry the caller      *)
(* holds (it borrows the set exclusively, so the set's own methods wait    *)
(* until it is gone), last the record of the latest call: its name, type,  *)
(* argument, the set before it, the entry it was made on, what it handed   *)
(* back and how often it invoked the closures f (a default) and g (a       *)
(* modifier) and the transition of the entry it went through; a take also  *)
(* records the insert or take of the same type it directly follows, and an *)
(* or_insert_with or or_default the and_modify it is chained to.           *)
(***************************************************************************)
Call(op, T, arg, pre, was, ret, fcalls, gcalls) ==
    [op |-> op, T |-> T, arg |-> arg, pre |-> pre, was |-> was, ret |-> ret,
     fcalls |-> fcalls, gcalls |-> gcalls, prior |-> [op |-> "none"],
     via |-> "none"]

Init ==
    /\ set = TypeSet_new
    /\ entry = NoEntry
    /\ last = Call("new", "none", Unit, TypeSet_new, "None", Unit, 0, 0)

\* the effect of a call whose outcome is r
DoneAfter(op, T, arg, r, fcalls, gcalls, prior) ==
    /\ set' = r.set
    /\ entry' = r.entry
    /\ last' = [Call(op, T, arg, set, entry.kind, r.ret, fcalls, gcalls)
                   EXCEPT !.via = r.via, !.prior = prior]

Done(op, T, arg, r, fcalls, gcalls) ==
    DoneAfter(op, T, arg, r, fcalls, gcalls, [op |-> "none"])

\* The builds to follow for a call F: a release build differs from a debug
\* build only where the debug build panics on a check the release build skips.
Builds(F(_)) ==
    IF IsPanic(F([debug |-> TRUE]).ret) THEN BuildOutcomes ELSE {[debug |-> TRUE]}

Free == entry = NoEntry

Held == entry # NoEntry

IsEmpty ==
    /\ Free
    /\ Done("is_empty", "none", Unit,
            Result(set, NoEntry, Bool(TypeSet_is_empty(set)), 0), 0, 0)

LenOp ==
    /\ Free
    /\ Done("len", "none", Unit,
            Result(set, NoEntry, Val(TypeSet_len(set)), 0), 0, 0)

EntryOp ==
    /\ Free
    /\ \E T \in Types :
          Done("entry", T, Unit, Result(set, TypeSet_entry(set, T), Unit, 0), 0, 0)

Insert ==
    /\ Free
    /\ \E T \in Types, v \in Vals :
          \E ub \in Builds(LAMBDA b : TypeSet_insert(set, T, v, b)) :
             Done("insert", T, Val(v), TypeSet_insert(set, T, v, ub), 0, 0)

With ==
    /\ Free
    /\ \E T \in Types, v \in Vals :
          \E ub \in Builds(LAMBDA b : TypeSet_with(set, T, v, b)) :
             Done("with", T, Val(v), TypeSet_with(set, T, v, ub), 0, 0)

Contains ==
    /\ Free
    /\ \E T \in Types :
          Done("contains", T, Unit,
               Result(set, NoEntry, Bool(TypeSet_contains(set, T)), 0), 0, 0)

Get ==
    /\ Free
    /\ \E T \in Types :
          \E ub \in Builds(LAMBDA b : Result(set, NoEntry, TypeSet_get(set, T, b), 0)) :
             Done("get", T, Unit, Result(set, NoEntry, TypeSet_get(set, T, ub), 0), 0, 0)

\* get_mut, and the caller's write through the reference it obtained
GetMut ==
    /\ Free
    /\ \E T \in Types, g \in Modifiers \cup {"keep"} :
        \E ub \in Builds(LAMBDA b : Result(set, NoEntry, TypeSet_get_mut(set, T, b), 0)) :
          LET r == TypeSet_get_mut(set, T, ub)
              m2 == IF ~IsPanic(r) /\ r.some
                    THEN map_write(set, key(T), Apply(g, r.val))
                    ELSE set
          IN  Done("get_mut", T, [modifier |-> g], Result(m2, NoEntry, r, 0), 0, 0)

Take ==
    /\ Free
    /\ \E T \in Types :
          \E ub \in Builds(LAMBDA b : TypeSet_take(set, T, b)) :
             DoneAfter("take", T, Unit, TypeSet_take(set, T, ub), 0, 0,
                       IF last.op \in {"insert", "take"} /\ last.T = T
                       THEN [op |-> last.op, arg |-> last.arg]
                       ELSE [op |-> "other"])

GetOrInsert ==
    /\ Free
    /\ \E T \in Types, d \in Vals :
          \E ub \in Builds(LAMBDA b : TypeSet_get_or_insert(set, T, d, b)) :
             Done("get_or_insert", T, Val(d), TypeSet_get_or_insert(set, T, d, ub), 0, 0)

GetOrInsertWith ==
    /\ Free
    /\ \E T \in Types, v \in Vals :
        \E ub \in Builds(LAMBDA b : TypeSet_get_or_insert_with(set, T, [result |-> v], b)) :
          LET r == TypeSet_get_or_insert_with(set, T, [result |-> v], ub)
          IN  Done("get_or_insert_with", T, [result |-> v], r, r.calls, 0)

GetOrInsertDefault ==
    /\ Free
    /\ \E T \in Types :
        \E ub \in Builds(LAMBDA b : TypeSet_get_or_insert_default(set, T, b)) :
          LET r == TypeSet_get_or_insert_default(set, T, ub)
          IN  Done("get_or_insert_default", T, Unit, r, r.calls, 0)

DebugFmt ==
    /\ Free
    /\ Done("fmt", "none", Unit,
            Result(set, NoEntry, [text |-> TypeSet_fmt(set)], 0), 0, 0)

Merge ==
    /\ Free
    /\ \E other \in TypeSets :
          Done("merge", "none", [other |-> other],
               Result(TypeSet_merge(set, other), NoEntry, Unit, 0), 0, 0)

(* Calls on the Entry the caller holds *)

\* what or_insert_with and or_default record of the chain they end: the
\* and_modify they directly follow, when that was called on a fresh entry
Chain ==
    IF last.op = "and_modify" /\ last.prior.op = "entry"
    THEN [op |-> "and_modify", arg |-> last.arg, pre |-> last.pre,
          gcalls |-> last.gcalls]
    ELSE [op |-> "other"]
OrInsert ==
    /\ Held
    /\ \E d \in Vals :
          \E ub \in Builds(LAMBDA b : Entry_or_insert(set, entry, d, b)) :
             Done("or_insert", entry.T, Val(d), Entry_or_insert(set, entry, d, ub), 0, 0)

OrInsertWith ==
    /\ Held
    /\ \E v \in Vals :
        \E ub \in Builds(LAMBDA b : Entry_or_insert_with(set, entry, [result |-> v], b)) :
          LET r == Entry_or_insert_with(set, entry, [result |-> v], ub)
          IN  DoneAfter("or_insert_with", entry.T, [result |-> v], r, r.calls, 0, Chain)

OrDefault ==
    /\ Held
    /\ \E ub \in Builds(LAMBDA b : Entry_or_default(set, entry, b)) :
          LET r == Entry_or_default(set, entry, ub)
          IN  DoneAfter("or_default", entry.T, Unit, r, r.calls, 0, Chain)

AndModify ==
    /\ Held
    /\ \E g \in Modifiers :
        \E ub \in Builds(LAMBDA b : Entry_and_modify(set, entry, g, b)) :
          LET r == Entry_and_modify(set, entry, g, ub)
          IN  DoneAfter("and_modify", entry.T, [modifier |-> g], r, 0, r.calls,
                        IF last.op = "entry" THEN [op |-> "entry"] ELSE [op |-> "other"])

EntryInsert ==
    /\ Held
    /\ \E v \in Vals :
          \E ub \in Builds(LAMBDA b : Entry_insert(set, entry, v, b)) :
             Done("Entry::insert", entry.T, Val(v), Entry_insert(set, entry, v, ub), 0, 0)

EntryTake ==
    /\ Held
    /\ \E ub \in Builds(LAMBDA b : Entry_take(set, entry, b)) :
          Done("Entry::take", entry.T, Unit, Entry_take(set, entry, ub), 0, 0)

UnwrapOccupied ==
    /\ Held
    /\ Done("unwrap_occupied", entry.T, Unit, Entry_unwrap_occupied(set, entry), 0, 0)

UnwrapVacant ==
    /\ Held
    /\ Done("unwrap_vacant", entry.T, Unit, Entry_unwrap_vacant(set, entry), 0, 0)

VacantInsert ==
    /\ Held
    /\ entry.kind = "Vacant"
    /\ \E v \in Vals :
          \E ub \in Builds(LAMBDA b : VacantEntry_insert(set, entry, v, b)) :
             Done("VacantEntry::insert", entry.T, Val(v),
                  VacantEntry_insert(set, entry, v, ub), 0, 0)

OccupiedGet ==
    /\ Held
    /\ entry.kind = "Occupied"
    /\ \E ub \in Builds(LAMBDA b : OccupiedEntry_get(set, entry, b)) :
          Done("OccupiedEntry::get", entry.T, Unit, OccupiedEntry_get(set, entry, ub), 0, 0)

\* OccupiedEntry::get_mut, and the caller's write through the reference
OccupiedGetMut ==
    /\ Held
    /\ entry.kind = "Occupied"
    /\ \E g \in Modifiers \cup {"keep"} :
        \E ub \in Builds(LAMBDA b : OccupiedEntry_get_mut(set, entry, b)) :
          LET r == OccupiedEntry_get_mut(set, entry, ub)
              m2 == IF IsPanic(r.ret) THEN set
                    ELSE map_write(set, entry.key, Apply(g, r.ret.val))
          IN  Done("OccupiedEntry::get_mut", entry.T, [modifier |-> g],
                   [r EXCEPT !.set = m2], 0, 0)

OccupiedInsert ==
    /\ Held
    /\ entry.kind = "Occupied"
    /\ \E v \in Vals :
          \E ub \in Builds(LAMBDA b : OccupiedEntry_insert(set, entry, v, b)) :
             Done("OccupiedEntry::insert", entry.T, Val(v),
                  OccupiedEntry_insert(set, entry, v, ub), 0, 0)

OccupiedRemove ==
    /\ Held
    /\ entry.kind = "Occupied"
    /\ \E ub \in Builds(LAMBDA b : OccupiedEntry_remove(set, entry, b)) :
          Done("OccupiedEntry::remove", entry.T, Unit,
               OccupiedEntry_remove(set, entry, ub), 0, 0)

OccupiedIntoMut ==
    /\ Held
    /\ entry.kind = "Occupied"
    /\ \E ub \in Builds(LAMBDA b : OccupiedEntry_into_mut(set, entry, b)) :
          Done("OccupiedEntry::into_mut", entry.T, Unit,
               OccupiedEntry_into_mut(set, entry, ub), 0, 0)

\* the entry goes out of scope unused
DropEntry ==
    /\ Held
    /\ Done("drop", entry.T, Unit, Result(set, NoEntry, Unit, 0), 0, 0)

Next ==
    \/ IsEmpty
    \/ LenOp
    \/ EntryOp
    \/ Insert
    \/ With
    \/ Contains
    \/ Get
    \/ GetMut
    \/ Take
    \/ GetOrInsert
    \/ GetOrInsertWith
    \/ GetOrInsertDefault
    \/ Merge
    \/ DebugFmt
    \/ OrInsert
    \/ OrInsertWith
    \/ OrDefault
    \/ AndModify
    \/ EntryInsert
    \/ EntryTake
    \/ UnwrapOccupied
    \/ UnwrapVacant
    \/ VacantInsert
    \/ OccupiedGet
    \/ OccupiedGetMut
    \/ OccupiedInsert
    \/ OccupiedRemove
    \/ OccupiedIntoMut
    \/ DropEntry

Spec == Init /\ [][Next]_vars

(***************************************************************************)
(* Properties                                                              *)
(***************************************************************************)
\* the types a set holds a value for
Present(m) == {T \in Types : TypeSet_contains(m, T)}

\* the number of slots a set holds for T
Slots(m, T) == Cardinality({i \in 1 .. Len(m) : m[i].key = key(T)})

\* get::<T>() yields x in every build
Gets(m, T, x) == \A ub \in BuildOutcomes : TypeSet_get(m, T, ub) = x

\* C1: in every reachable state the set holds at most one value for each
\* type, len() is the number of distinct types stored and is_empty() holds
\* exactly when that number is 0.
C1_Uniqueness ==
    /\ \A T \in Types : Slots(set, T) <= 1
    /\ TypeSet_len(set) = Cardinality(Present(set))
    /\ TypeSet_is_empty(set) <=> Cardinality(Present(set)) = 0

\* a value was inserted for a type that was already stored next to another
C1_Witness ==
    /\ last.op \in {"insert", "with", "merge", "Entry::insert", "OccupiedEntry::insert"}
    /\ last.T \in Present(last.pre)
    /\ TypeSet_len(set) >= 2

\* C2: insert::<T>(v) of an absent T returns None and adds one to len();
\* insert::<T>(v) over a stored w returns Some(w) and leaves len() as it was.
C2_InsertReplace ==
    last.op = "insert" =>
        IF last.T \in Present(last.pre)
        THEN /\ \E w \in Vals : Gets(last.pre, last.T, Some(w)) /\ last.ret = Some(w)
             /\ TypeSet_len(set) = TypeSet_len(last.pre)
        ELSE /\ last.ret = None
             /\ TypeSet_len(set) = TypeSet_len(last.pre) + 1

\* an insert replaced a different value and handed it back
C2_Witness ==
    /\ last.op = "insert"
    /\ last.T \in Present(last.pre)
    /\ last.ret # Some(last.arg.val)
    /\ last.ret \in {Some(w) : w \in Vals}

\* C3: directly after insert::<T>(v), get::<T>() is Some(v), the value just
\* inserted, and contains::<T>() is true.
C3_GetAfterInsert ==
    last.op = "insert" =>
        /\ Gets(set, last.T, Some(last.arg.val))
        /\ TypeSet_contains(set, last.T)

\* an insert over a stored value that differs from the new one
C3_Witness ==
    /\ last.op = "insert"
    /\ \E w \in Vals \ {last.arg.val} : Gets(last.pre, last.T, Some(w))
    /\ Gets(set, last.T, Some(last.arg.val))

\* C4: take::<T>() directly after insert::<T>(v) returns Some(v) and leaves
\* T absent (contains false, get None, len() one less); a take::<T>() directly
\* after a take::<T>() returns None and changes nothing.
C4_TakeRoundTrip ==
    last.op = "take" =>
        /\ last.prior.op = "insert" =>
              /\ last.ret = Some(last.prior.arg.val)
              /\ ~TypeSet_contains(set, last.T)
              /\ Gets(set, last.T, None)
              /\ TypeSet_len(set) = TypeSet_len(last.pre) - 1
        /\ last.prior.op = "take" =>
              /\ last.ret = None
              /\ set = last.pre

\* a take that follows an insert of the same type into a set of two types
C4_Witness ==
    /\ last.op = "take"
    /\ last.prior.op = "insert"
    /\ last.ret \in {Some(w) : w \in Vals}
    /\ TypeSet_len(last.pre) = 2
    /\ TypeSet_len(set) = 1

\* C5: after A.merge(B) a type only in A keeps A's value, a type in B holds
\* B's value whether or not A had one, and len() is the size of the union of
\* the two sets' types.
C5_Merge ==
    last.op = "merge" =>
        LET A == last.pre
            B == last.arg.other
        IN  /\ \A T \in Present(A) \ Present(B) :
                  \E w \in Vals : Gets(A, T, Some(w)) /\ Gets(set, T, Some(w))
            /\ \A T \in Present(B) :
                  \E w \in Vals : Gets(B, T, Some(w)) /\ Gets(set, T, Some(w))
            /\ Present(set) = Present(A) \cup Present(B)
            /\ TypeSet_len(set) = Cardinality(Present(A) \cup Present(B))

\* a merge with a type only in A, a type only in B and a collision of two
\* different values
C5_Witness ==
    /\ last.op = "merge"
    /\ Present(last.pre) \ Present(last.arg.other) # {}
    /\ Present(last.arg.other) \ Present(last.pre) # {}
    /\ \E T \in Present(last.pre) \cap Present(last.arg.other) :
          \E w \in Vals : Gets(last.arg.other, T, Some(w)) /\ ~Gets(last.pre, T, Some(w))

\* C6: get_or_insert_with::<T>(f) and entry::<T>().or_insert_with(f) do not
\* invoke f when T is stored (the stored value is returned, the set is as it
\* was) and invoke it exactly once when T is absent (its result is stored
\* under T and returned).
C6_LazyDefault ==
    last.op \in {"get_or_insert_with", "or_insert_with"} =>
        IF last.T \in Present(last.pre)
        THEN /\ last.fcalls = 0
             /\ set = last.pre
             /\ \E w \in Vals : Gets(last.pre, last.T, Some(w)) /\ last.ret = Val(w)
        ELSE /\ last.fcalls = 1
             /\ Gets(set, last.T, Some(last.arg.result))
             /\ last.ret = Val(last.arg.result)

\* get_or_insert_with on a stored value that differs from what f would make
C6_Witness ==
    /\ last.op = "get_or_insert_with"
    /\ last.T \in Present(last.pre)
    /\ last.fcalls = 0
    /\ last.ret # Val(last.arg.result)

\* C7: and_modify(g) on a stored v invokes g once on the stored value in
\* place (T then holds g(v)) and returns an Occupied entry; on an absent T it
\* does not invoke g, changes nothing and returns a Vacant entry.
C7_AndModify ==
    last.op = "and_modify" =>
        IF last.T \in Present(last.pre)
        THEN /\ last.gcalls = 1
             /\ \E w \in Vals : /\ Gets(last.pre, last.T, Some(w))
                                 /\ Gets(set, last.T, Some(Apply(last.arg.modifier, w)))
             /\ TypeSet_len(set) = TypeSet_len(last.pre)
             /\ entry = Occupied(last.T)
        ELSE /\ last.gcalls = 0
             /\ set = last.pre
             /\ entry = Vacant(last.T)

\* and_modify changed a stored value
C7_Witness ==
    /\ last.op = "and_modify"
    /\ last.T \in Present(last.pre)
    /\ set # last.pre
    /\ last.gcalls = 1

\* C8: get_or_insert::<T>(d) and entry::<T>().or_insert(d) return the stored
\* value and change nothing when T is stored, and otherwise store d under T,
\* return it and add one to len(); hence a second or_insert(d2) leaves the d1
\* of the first stored.
C8_OrInsert ==
    last.op \in {"get_or_insert", "or_insert"} =>
        IF last.T \in Present(last.pre)
        THEN /\ set = last.pre
             /\ \E w \in Vals : Gets(last.pre, last.T, Some(w)) /\ last.ret = Val(w)
        ELSE /\ Gets(set, last.T, Some(last.arg.val))
             /\ last.ret = Val(last.arg.val)
             /\ TypeSet_len(set) = TypeSet_len(last.pre) + 1

\* get_or_insert discarded a default that differs from the stored value
C8_Witness ==
    /\ last.op = "get_or_insert"
    /\ last.T \in Present(last.pre)
    /\ last.ret # Val(last.arg.val)

\* the set and the value a call r leaves are those of the latest call
SameOutcome(r) == r.set = set /\ r.ret = last.ret /\ r.calls = last.fcalls

\* C9: from the same set, get_or_insert(d) and entry().or_insert(d) leave the
\* same set and return the same value; likewise get_or_insert_with and
\* or_insert_with, get_or_insert_default and or_default.
C9_EntryEquivalence ==
    LET P == last.pre
        T == last.T
    IN  /\ last.op = "get_or_insert" =>
              \E ub \in BuildOutcomes :
                 SameOutcome(Entry_or_insert(P, TypeSet_entry(P, T), last.arg.val, ub))
        /\ last.op = "or_insert" =>
              \E ub \in BuildOutcomes :
                 SameOutcome(TypeSet_get_or_insert(P, T, last.arg.val, ub))
        /\ last.op = "get_or_insert_with" =>
              \E ub \in BuildOutcomes :
                 SameOutcome(Entry_or_insert_with(P, TypeSet_entry(P, T), last.arg, ub))
        /\ last.op = "or_insert_with" =>
              \E ub \in BuildOutcomes :
                 SameOutcome(TypeSet_get_or_insert_with(P, T, last.arg, ub))
        /\ last.op = "get_or_insert_default" =>
              \E ub \in BuildOutcomes :
                 SameOutcome(Entry_or_default(P, TypeSet_entry(P, T), ub))
        /\ last.op = "or_default" =>
              \E ub \in BuildOutcomes :
                 SameOutcome(TypeSet_get_or_insert_default(P, T, ub))

\* entry().or_insert(d) stored d next to another type's value
C9_Witness ==
    /\ last.op = "or_insert"
    /\ last.T \notin Present(last.pre)
    /\ TypeSet_len(last.pre) >= 1
    /\ Gets(set, last.T, Some(last.arg.val))

\* C10: unwrap_occupied() on an entry for an absent T and unwrap_vacant() on
\* an entry for a stored T panic at once, the message naming the expected
\* state and the type T, and leave the set as it was; when the entry's state
\* matches the accessor the view is returned and nothing fails.
C10_UnwrapMisuse ==
    /\ last.op = "unwrap_occupied" =>
          /\ set = last.pre
          /\ IF last.T \in Present(last.pre)
             THEN last.ret = Unit /\ entry = Occupied(last.T)
             ELSE /\ IsPanic(last.ret)
                  /\ last.ret.panic[1] = "expected an occupied type-set entry for "
                  /\ last.ret.panic[2] = type_name(last.T)
                  /\ entry = NoEntry
    /\ last.op = "unwrap_vacant" =>
          /\ set = last.pre
          /\ IF last.T \notin Present(last.pre)
             THEN last.ret = Unit /\ entry = Vacant(last.T)
             ELSE /\ IsPanic(last.ret)
                  /\ last.ret.panic[1] = "expected a vacant type-set entry for "
                  /\ last.ret.panic[2] = type_name(last.T)
                  /\ entry = NoEntry

\* unwrap_vacant panicked on an entry for a stored type
C10_Witness ==
    /\ last.op = "unwrap_vacant"
    /\ last.T \in Present(last.pre)
    /\ IsPanic(last.ret)

\* C11: for an absent T, get, get_mut and take return None and contains
\* returns false, none of them panics and the set is as it was; an insert
\* that replaces a value and a merge with colliding types do not panic.
C11_NoErrorPath ==
    /\ (last.op \in {"get", "get_mut", "take"} /\ last.T \notin Present(last.pre)) =>
          last.ret = None /\ set = last.pre
    /\ (last.op = "contains" /\ last.T \notin Present(last.pre)) =>
          last.ret = Bool(FALSE) /\ set = last.pre
    /\ last.op \in {"get", "get_mut", "take", "contains", "insert", "merge"} =>
          ~IsPanic(last.ret)

\* get_mut of a type that is absent from a set holding another type
C11_Witness ==
    /\ last.op = "get_mut"
    /\ last.T \notin Present(last.pre)
    /\ TypeSet_len(last.pre) >= 1
    /\ last.ret = None

\* the names of the types S in sorted order
SortedNames(S) == SelectSeq(NameOrder, LAMBDA n : n \in {type_name(T) : T \in S})

\* C12: the Debug rendering of a set lists the names of exactly the stored
\* types in sorted order, and every set holding the same types, whatever
\* their values, renders the same: no stored value shows.
C12_DebugNamesOnly ==
    last.op = "fmt" =>
        /\ last.ret.text =
              <<"TypeSet", "(">> \o debug_set(SortedNames(Present(last.pre))) \o <<")">>
        /\ \A m \in TypeSets :
              Present(m) = Present(last.pre) => TypeSet_fmt(m) = last.ret.text
        /\ set = last.pre

\* a set of three types, not all holding the same value, was rendered
C12_Witness ==
    /\ last.op = "fmt"
    /\ TypeSet_len(last.pre) = 3
    /\ \E T \in Types, U \in Types, w \in Vals :
          Gets(last.pre, T, Some(w)) /\ ~Gets(last.pre, U, Some(w))

\* the cell stored under key k holds a value of the type with that key and
\* has recorded that type's name
WellTyped(k, cell) ==
    \E T \in Types :
       /\ k = key(T)
       /\ cell.any.type_id = key(T)
       /\ cell.name = type_name(T)

\* C13: in every reachable state each cell's payload type and recorded name
\* are those of the type its key identifies, so that no downcast fails: no
\* call panics on unwrap! or debug_assert_eq!, and a release build reads the
\* stored value.
C13_KeyMatchesPayload ==
    /\ \A i \in 1 .. Len(set) : WellTyped(set[i].key, set[i].value)
    /\ IsPanic(last.ret) => last.op \in {"unwrap_occupied", "unwrap_vacant"}
    /\ \A T \in Present(set) :
          \A ub \in BuildOutcomes :
             TypeSet_get(set, T, ub) = Some(map_get(set, key(T)).any.val)

\* a merge with a collision has left three types stored
C13_Witness ==
    /\ last.op = "merge"
    /\ TypeSet_len(set) = 3
    /\ Present(last.pre) \cap Present(last.arg.other) # {}
    /\ last.pre # set

\* C14: entry::<T>() does not fail and returns an Occupied view exactly when
\* contains::<T>() is true and a Vacant view exactly when it is false
\* (Entry::is_empty() holds iff T is absent); taking the entry and dropping
\* it unused leaves the set as it was.
C14_EntryProbe ==
    /\ last.op = "entry" =>
          /\ ~IsPanic(last.ret)
          /\ set = last.pre
          /\ entry.T = last.T
          /\ entry.kind = "Occupied" <=> TypeSet_contains(set, last.T)
          /\ entry.kind = "Vacant" <=> ~TypeSet_contains(set, last.T)
          /\ Entry_is_empty(entry) <=> last.T \notin Present(set)
    /\ last.op = "drop" => set = last.pre /\ entry = NoEntry

\* an Occupied entry was obtained from a set that lacks another type
C14_Witness ==
    /\ last.op = "entry"
    /\ entry.kind = "Occupied"
    /\ Present(set) # Types
    /\ TypeSet_len(set) >= 2

\* what the three transitions of an entry do to the slot of its type
EntryTransitions ==
    /\ last.via = "VacantEntry::insert" =>
          /\ last.T \notin Present(last.pre)
          /\ Present(set) = Present(last.pre) \cup {last.T}
          /\ TypeSet_len(set) = TypeSet_len(last.pre) + 1
    /\ last.op = "VacantEntry::insert" =>
          /\ last.via = "VacantEntry::insert"
          /\ Gets(set, last.T, Some(last.arg.val))
          /\ last.ret = Val(last.arg.val)
    /\ last.via = "OccupiedEntry::insert" =>
          /\ last.T \in Present(last.pre)
          /\ Present(set) = Present(last.pre)
          /\ TypeSet_len(set) = TypeSet_len(last.pre)
    /\ last.op = "OccupiedEntry::insert" =>
          /\ last.via = "OccupiedEntry::insert"
          /\ \E w \in Vals : Gets(last.pre, last.T, Some(w)) /\ last.ret = Val(w)
          /\ Gets(set, last.T, Some(last.arg.val))
          /\ entry = Occupied(last.T)
          /\ \A ub \in BuildOutcomes :
                OccupiedEntry_get(set, entry, ub).ret = Val(last.arg.val)
    /\ last.via = "OccupiedEntry::remove" =>
          /\ last.T \in Present(last.pre)
          /\ Present(set) = Present(last.pre) \ {last.T}
    /\ last.op = "OccupiedEntry::remove" =>
          /\ last.via = "OccupiedEntry::remove"
          /\ \E w \in Vals : Gets(last.pre, last.T, Some(w)) /\ last.ret = Val(w)
          /\ entry = NoEntry
          /\ TypeSet_entry(set, last.T) = Vacant(last.T)

\* C15 as stated: a slot goes from absent to present or back only through
\* VacantEntry::insert and OccupiedEntry::remove, and the three transitions
\* act as described.
C15_OnlyEntryTransitions ==
    /\ EntryTransitions
    /\ Present(set) # Present(last.pre) =>
          last.via \in {"VacantEntry::insert", "OccupiedEntry::remove"}

\* C15, amended: a slot goes from absent to present or back only through
\* VacantEntry::insert and OccupiedEntry::remove or, in a merge, through the
\* extend of the backing map.  VacantEntry::insert(v) makes T present with v
\* and returns the stored v; OccupiedEntry::insert(v) returns the old value
\* and leaves T present with v, the view still usable, len() as it was;
\* OccupiedEntry::remove() returns the stored value and leaves T absent, so
\* that entry::<T>() is then Vacant.
C15_EntryTransitionsOrMerge ==
    /\ EntryTransitions
    /\ Present(set) # Present(last.pre) =>
          \/ last.via \in {"VacantEntry::insert", "OccupiedEntry::remove"}
          \/ last.op = "merge"

\* OccupiedEntry::insert replaced a different value next to another type
C15_Witness ==
    /\ last.op = "OccupiedEntry::insert"
    /\ last.ret # Val(last.arg.val)
    /\ TypeSet_len(set) >= 2
    /\ entry = Occupied(last.T)

\* the value the closure of the latest or_insert_with / or_default makes
Made == IF last.op = "or_default" THEN default(last.T) ELSE last.arg.result

\* C16: entry::<T>().and_modify(g).or_insert_with(f), and the same with
\* or_default(), invokes exactly one of g and f, once: g when T is stored,
\* f when it is absent; afterwards T is stored, holding g of the old value
\* in the first case and what f made in the second.
C16_ModifyOrInsert ==
    (last.op \in {"or_insert_with", "or_default"} /\ last.prior.op = "and_modify") =>
        LET P == last.prior.pre
            g == last.prior.arg.modifier
        IN  /\ last.prior.gcalls + last.fcalls = 1
            /\ last.T \in Present(set)
            /\ IF last.T \in Present(P)
               THEN /\ last.prior.gcalls = 1
                    /\ last.fcalls = 0
                    /\ \E w \in Vals : /\ Gets(P, last.T, Some(w))
                                        /\ Gets(set, last.T, Some(Apply(g, w)))
                                        /\ last.ret = Val(Apply(g, w))
                    /\ TypeSet_len(set) = TypeSet_len(P)
               ELSE /\ last.prior.gcalls = 0
                    /\ last.fcalls = 1
                    /\ Gets(set, last.T, Some(Made))
                    /\ last.ret = Val(Made)
                    /\ TypeSet_len(set) = TypeSet_len(P) + 1

\* and_modify(incr).or_default() on a stored value: the value went up by one
\* and the default was not made
C16_Witness ==
    /\ last.op = "or_default"
    /\ last.prior.op = "and_modify"
    /\ last.prior.gcalls = 1
    /\ last.prior.arg.modifier = "incr"
    /\ last.fcalls = 0
    /\ last.ret # Val(default(last.T))
    /\ TypeSet_len(set) = 1

\* C17: len(), is_empty(), contains::<T>() and get::<T>() leave the set as it
\* was, and contains::<T>() is true iff get::<T>() is Some, for every T.
C17_ReadsArePure ==
    /\ last.op \in {"len", "is_empty", "contains", "get"} =>
          set = last.pre /\ entry = NoEntry
    /\ \A T \in Types :
          TypeSet_contains(set, T) <=> \E w \in Vals : Gets(set, T, Some(w))
    /\ \A T \in Types :
          ~TypeSet_contains(set, T) <=> Gets(set, T, None)
    /\ last.op = "contains" =>
          (last.ret = Bool(TRUE) <=> \E w \in Vals : Gets(set, last.T, Some(w)))
    /\ last.op = "get" =>
          (last.ret # None <=> TypeSet_contains(set, last.T))
    /\ last.op = "len" => last.ret = Val(Cardinality({T \in Types : ~Gets(set, T, None)}))
    /\ last.op = "is_empty" => (last.ret = Bool(TRUE) <=> \A T \in Types : Gets(set, T, None))

\* contains::<T>() answered false on a set that holds two other types
C17_Witness ==
    /\ last.op = "contains"
    /\ last.ret = Bool(FALSE)
    /\ TypeSet_len(set) = 2
    /\ set = last.pre

\* what a set holds for U: None, or Some of its value
Slot(m, U) == TypeSet_get(m, U, [debug |-> TRUE])

\* the types whose slot the latest call changed
Changed == {U \in Types : Slot(set, U) # Slot(last.pre, U)}

\* C18: a call on type T (insert, with, take, get_mut, get_or_insert*,
\* entry and every operation on the entry) leaves the presence and the value
\* of every other type as they were; only merge changes more than one slot.
C18_OtherTypesUntouched ==
    last.op # "merge" =>
        /\ Changed \subseteq {last.T}
        /\ \A U \in Types \ {last.T} :
              /\ U \in Present(set) <=> U \in Present(last.pre)
              /\ \A w \in Vals : Gets(set, U, Some(w)) <=> Gets(last.pre, U, Some(w))
        /\ Cardinality(Changed) <= 1

\* a take removed one type from a set of three and left the other two
C18_Witness ==
    /\ last.op = "take"
    /\ TypeSet_len(last.pre) = 3
    /\ TypeSet_len(set) = 2
    /\ Changed = {last.T}

====
